---- MODULE Spec2Model ----
(***************************************************************************)
(* Model of summa_plot/spatial.py: add_map_features, gen_patches, spatial  *)
(* and hovmuller.  The module's functions are stateless; the state of the  *)
(* model is the call the caller makes (its arguments), the number of       *)
(* figures the builders have allocated, and the record of the last call    *)
(* (what it returned or raised).                                           *)
(***************************************************************************)
EXTENDS Integers, Sequences, FiniteSets, TLC

VARIABLES call, figs, ret

vars == <<call, figs, ret>>

(* ---------------------------------------------------------------- bounds *)
MaxRows == 3
MaxParts == 2
MaxDecorations == 2
MaxFigs == 2

(* ------------------------------------------------------- small utilities *)
SeqsUpTo(S, n) == UNION {[1..k -> S] : k \in 0..n}

Min2(a, b) == IF a < b THEN a ELSE b

(* zip(a, b): pairs up to the shorter of the two sequences *)
Zip(a, b) == [i \in 1..Min2(Len(a), Len(b)) |-> <<a[i], b[i]>>]

(* ----------------------------------------------------- add_map_features *)
(* An axis: its projection, the artists added to it in order, and the      *)
(* artists its view limits were last fitted to.                            *)
NewAxis(proj) == [projection |-> proj, artists |-> <<>>, view |-> <<>>]

NaturalEarthFeature(category, name, facecolor) ==
    [type |-> "feature", category |-> category, name |-> name,
     scale |-> "50m", facecolor |-> facecolor]

add_feature(ax, feature, zorder) ==
    [ax EXCEPT !.artists = Append(@, [feature |-> feature, zorder |-> zorder])]

Flags == [states_provinces : BOOLEAN, country_borders : BOOLEAN,
          land : BOOLEAN, ocean : BOOLEAN, lake : BOOLEAN]

DefaultFlags == [states_provinces |-> TRUE, country_borders |-> TRUE,
                 land |-> TRUE, ocean |-> TRUE, lake |-> FALSE]

(* variant of lake_branch without the test of its flag *)
lake_branch_mut(ax, lake) == add_feature(ax,
        NaturalEarthFeature("physical", "rivers_lake_centerlines", "none"), 2)

states_branch(ax, states_provinces) ==
    IF states_provinces
    THEN add_feature(ax, NaturalEarthFeature(
             "cultural", "admin_1_states_provinces_lines", "none"), 2)
    ELSE ax

country_branch(ax, country_borders) ==
    IF country_borders
    THEN add_feature(ax, NaturalEarthFeature(
             "cultural", "admin_0_boundary_lines_land", "none"), 2)
    ELSE ax

land_branch(ax, land) ==
    IF land
    THEN add_feature(ax, NaturalEarthFeature("physical", "land", "gray"), 0)
    ELSE ax

ocean_branch(ax, ocean) ==
    IF ocean
    THEN add_feature(ax, NaturalEarthFeature("physical", "ocean", "blue"), 1)
    ELSE ax

lake_branch(ax, lake) ==
    IF lake
    THEN add_feature(ax, NaturalEarthFeature(
             "physical", "rivers_lake_centerlines", "none"), 2)
    ELSE ax

add_map_features(ax, f) ==
    lake_branch(
      ocean_branch(
        land_branch(
          country_branch(
            states_branch(ax, f.states_provinces),
            f.country_borders),
          f.land),
        f.ocean),
      f.lake)

(* ------------------------------------------------------------ gen_patches *)
SourceCrs == "epsg4326"

(* single polygons: an exterior ring and a number of holes *)
Polygons == {[type |-> "Polygon", id |-> 1, holes |-> 0, crs |-> SourceCrs],
             [type |-> "Polygon", id |-> 2, holes |-> 1, crs |-> SourceCrs]}

(* the j-th part of a multi-part polygon *)
Part(j) == [type |-> "Polygon", id |-> 100 + j, holes |-> 0, crs |-> SourceCrs]

MultiPolygons == {[type |-> "MultiPolygon", geoms |-> [j \in 1..k |-> Part(j)]] :
                      k \in 0..MaxParts}

Shapes == Polygons \cup MultiPolygons

(* data_array.values: the i-th value is 10 * i, so every row's value differs *)
ValueArrays == {[i \in 1..k |-> 10 * i] : k \in 0..MaxRows}

GeometryTables == SeqsUpTo(Shapes, MaxRows)

SimplifyLevels == {500}

isinstance_MultiPolygon(shp) == shp.type = "MultiPolygon"

(* shp.simplify(tolerance): same polygon, vertices reduced within tolerance *)
simplify(poly, tolerance) ==
    [type |-> "Polygon", id |-> poly.id, holes |-> poly.holes,
     crs |-> poly.crs, tol |-> tolerance]

(* .exterior: the outer ring only, the holes are dropped *)
exterior(poly) == [ring |-> poly.id, crs |-> poly.crs, tol |-> poly.tol]

(* Polygon(np.asarray(...)): the matplotlib patch of a ring *)
PolygonPatch(ring) == [type |-> "patch", xy |-> ring]

(* variant of multi_loop with vals.append(val) after the loop, not in it *)
RECURSIVE multi_loop_mut(_, _, _, _)
multi_loop_mut(subs, val, simplify_level, acc) ==
    IF subs = <<>>
    THEN [acc EXCEPT !.vals = Append(@, val)]
    ELSE multi_loop_mut(Tail(subs), val, simplify_level,
           [acc EXCEPT !.patches = Append(@,
               PolygonPatch(exterior(simplify(Head(subs), simplify_level))))])

(* the inner loop: for sub in shp: patches.append(...); vals.append(val) *)
RECURSIVE multi_loop(_, _, _, _)
multi_loop(subs, val, simplify_level, acc) ==
    IF subs = <<>>
    THEN acc
    ELSE multi_loop(Tail(subs), val, simplify_level,
           [patches |-> Append(acc.patches,
               PolygonPatch(exterior(simplify(Head(subs), simplify_level)))),
            vals |-> Append(acc.vals, val)])

(* the outer loop over zip(data_array.values, geodf.geometry) *)
RECURSIVE patch_loop(_, _, _)
patch_loop(recs, simplify_level, acc) ==
    IF recs = <<>>
    THEN acc
    ELSE LET val == Head(recs)[1]
             shp == Head(recs)[2]
         IN IF isinstance_MultiPolygon(shp)
            THEN patch_loop(Tail(recs), simplify_level,
                     multi_loop(shp.geoms, val, simplify_level, acc))
            ELSE patch_loop(Tail(recs), simplify_level,
                     [patches |-> Append(acc.patches,
                          PolygonPatch(exterior(simplify(shp, simplify_level)))),
                      vals |-> Append(acc.vals, val)])

PatchCollection(patches, vals) ==
    [type |-> "PatchCollection", patches |-> patches, array |-> vals,
     linewidth |-> 0, edgecolor |-> "None", alpha |-> 1]

gen_patches(values, geometry, simplify_level) ==
    LET acc == patch_loop(Zip(values, geometry), simplify_level,
                          [patches |-> <<>>, vals |-> <<>>])
    IN PatchCollection(acc.patches, acc.vals)

(* ----------------------------------------------------------------- spatial *)
Mercator == "merc"

Projections == {Mercator, SourceCrs}

RECURSIVE reproject(_, _)
reproject(shp, crs) ==
    IF isinstance_MultiPolygon(shp)
    THEN [type |-> "MultiPolygon",
          geoms |-> [j \in 1..Len(shp.geoms) |-> reproject(shp.geoms[j], crs)]]
    ELSE [shp EXCEPT !.crs = crs]

(* geodf.to_crs(crs=...): every shape of the table, in order, reprojected *)
to_crs(geometry, crs) == [i \in 1..Len(geometry) |-> reproject(geometry[i], crs)]

add_collection(ax, coll) == [ax EXCEPT !.artists = Append(@, coll)]

IsCollection(a) == "type" \in DOMAIN a

(* ax.autoscale_view(): fit the view to the collections the axis holds now *)
autoscale_view(ax) ==
    [ax EXCEPT !.view = SelectSeq(ax.artists, IsCollection)]

(* variant of spatial with autoscale_view called before add_collection *)
spatial_mut(values, geometry, simplify_level, proj) ==
    LET geodf_crs == to_crs(geometry, proj)
        patches == gen_patches(values, geodf_crs, simplify_level)
        ax == NewAxis(proj)
    IN add_map_features(add_collection(autoscale_view(ax), patches), DefaultFlags)

spatial(values, geometry, simplify_level, proj) ==
    LET geodf_crs == to_crs(geometry, proj)
        patches == gen_patches(values, geodf_crs, simplify_level)
        ax == NewAxis(proj)
    IN autoscale_view(
         add_map_features(add_collection(ax, patches), DefaultFlags))

(* --------------------------------------------------------------- hovmuller *)
(* Python values the validation handles: None, strings, lists and dicts.   *)
None == [t |-> "NoneType"]

Str(s) == [t |-> "str", s |-> s]

(* truthiness: None and the empty string are falsy *)
Truthy(v) == v.t = "str" /\ v.s # ""

time_groups ==
    [t |-> "list",
     items |-> <<"year", "month", "day", "hour", "minute", "second",
                 "dayofyear", "week", "dayofweek", "weekday", "quarter">>]

SeqRange(s) == {s[i] : i \in DOMAIN s}

(* obj.keys(): a dict has the method, a list has no such attribute *)
keys(obj) ==
    IF obj.t = "dict"
    THEN [exc |-> "none", val |-> obj.keys]
    ELSE [exc |-> "AttributeError", val |-> {}]

(* variant of x_tg_dim testing membership in the list itself *)
x_tg_dim_mut(xdim) == [exc |-> "none", val |-> xdim \in SeqRange(time_groups.items)]

(* line 78: x_tg_dim = xdim in time_groups.keys() *)
x_tg_dim(xdim) ==
    LET k == keys(time_groups)
    IN [exc |-> k.exc, val |-> xdim \in k.val]

(* line 88: y_tg_dim = ydim in time_groups.keys() *)
y_tg_dim(ydim) ==
    LET k == keys(time_groups)
    IN [exc |-> k.exc, val |-> ydim \in k.val]

Raise(f, e) == [f EXCEPT !.exc = e]

(* lines 77-85; a frame that already raised is passed on unchanged *)
check_x(f) ==
    IF f.exc # "none" THEN f
    ELSE
    LET x_da_dim == f.xdim \in f.da.dims
        tg == x_tg_dim(f.xdim)
    IN IF tg.exc # "none" THEN Raise(f, tg.exc)
       ELSE IF tg.val
            THEN IF ~Truthy(f.how)
                 THEN Raise([f EXCEPT !.xdim = "time." \o f.xdim],
                            "Must specify aggregation method for x dimension")
                 ELSE [f EXCEPT !.xdim = "time." \o f.xdim]
            ELSE IF ~x_da_dim
                 THEN Raise(f, "x dimension not valid")
                 ELSE f

(* lines 87-95 *)
check_y(f) ==
    IF f.exc # "none" THEN f
    ELSE
    LET y_da_dim == f.ydim \in f.da.dims
        tg == y_tg_dim(f.ydim)
    IN IF tg.exc # "none" THEN Raise(f, tg.exc)
       ELSE IF tg.val
            THEN IF ~Truthy(f.how)
                 THEN Raise([f EXCEPT !.ydim = "time." \o f.ydim],
                            "Must specify aggregation method for y dimension")
                 ELSE [f EXCEPT !.ydim = "time." \o f.ydim]
            ELSE IF ~y_da_dim
                 THEN Raise(f, "y dimension not valid")
                 ELSE f

aggregation_methods == {"mean", "max", "min", "median", "std"}

(* lines 103-104 *)
check_how(f) ==
    IF f.exc # "none" THEN f
    ELSE IF ~(f.how.t = "str" /\ f.how.s \in aggregation_methods)
         THEN Raise(f, "Invalid time aggregation method given")
         ELSE f

(* The time coordinate is a count of hours since 1970-01-01T00:00; the     *)
(* calendar components are the fields of its datetime accessor.            *)
Days(t) == t \div 24

days_from_civil(y0, m, d) ==
    LET y == IF m <= 2 THEN y0 - 1 ELSE y0
        era == y \div 400
        yoe == y - era * 400
        doy == (153 * (IF m > 2 THEN m - 3 ELSE m + 9) + 2) \div 5 + d - 1
        doe == yoe * 365 + yoe \div 4 - yoe \div 100 + doy
    IN era * 146097 + doe - 719468

civil_from_days(z0) ==
    LET z == z0 + 719468
        era == z \div 146097
        doe == z - era * 146097
        yoe == (doe - doe \div 1460 + doe \div 36524 - doe \div 146096) \div 365
        doy == doe - (365 * yoe + yoe \div 4 - yoe \div 100)
        mp == (5 * doy + 2) \div 153
        d == doy - (153 * mp + 2) \div 5 + 1
        m == IF mp < 10 THEN mp + 3 ELSE mp - 9
    IN [year |-> yoe + era * 400 + (IF m <= 2 THEN 1 ELSE 0), month |-> m, day |-> d]

(* Monday = 0; 1970-01-01 was a Thursday *)
Weekday(z) == (z + 3) % 7

IsLeap(y) == (y % 4 = 0 /\ y % 100 # 0) \/ y % 400 = 0

WeeksInYear(y) ==
    LET jan1 == Weekday(days_from_civil(y, 1, 1))
    IN IF jan1 = 3 \/ (IsLeap(y) /\ jan1 = 2) THEN 53 ELSE 52

DayOfYear(z) == z - days_from_civil(civil_from_days(z).year, 1, 1) + 1

IsoWeek(z) ==
    LET y == civil_from_days(z).year
        w == (DayOfYear(z) - (Weekday(z) + 1) + 10) \div 7
    IN IF w < 1 THEN WeeksInYear(y - 1)
       ELSE IF w > WeeksInYear(y) THEN 1 ELSE w

TimeComponent(t, c) ==
    CASE c = "year" -> civil_from_days(Days(t)).year
      [] c = "month" -> civil_from_days(Days(t)).month
      [] c = "day" -> civil_from_days(Days(t)).day
      [] c = "hour" -> t % 24
      [] c = "minute" -> 0
      [] c = "second" -> 0
      [] c = "dayofyear" -> DayOfYear(Days(t))
      [] c = "week" -> IsoWeek(Days(t))
      [] c = "dayofweek" -> Weekday(Days(t))
      [] c = "weekday" -> Weekday(Days(t))
      [] c = "quarter" -> (civil_from_days(Days(t)).month - 1) \div 3 + 1

TimeKeys == {"time." \o c : c \in SeqRange(time_groups.items)}

ComponentOf(key) == CHOOSE c \in SeqRange(time_groups.items) : "time." \o c = key

(* the group label of one array element under a grouping key *)
Coord(da, s, key) ==
    IF key \in TimeKeys
    THEN TimeComponent(s.c["time"], ComponentOf(key))
    ELSE s.c[key]

Groupable(da, key) ==
    IF key \in TimeKeys THEN "time" \in da.dims ELSE key \in da.dims

(* numbers of the result grid: num/den, or its square root; den = 0 is NaN *)
NaN == [num |-> 0, den |-> 0, root |-> FALSE]

RECURSIVE SumVal(_)
SumVal(S) ==
    IF S = {} THEN 0
    ELSE LET s == CHOOSE s \in S : TRUE IN s.val + SumVal(S \ {s})

RECURSIVE SumSq(_)
SumSq(S) ==
    IF S = {} THEN 0
    ELSE LET s == CHOOSE s \in S : TRUE IN s.val * s.val + SumSq(S \ {s})

(* the k-th smallest value (k from 0) of the elements of S *)
Kth(S, k) ==
    CHOOSE v \in {s.val : s \in S} :
        /\ Cardinality({s \in S : s.val < v}) <= k
        /\ k < Cardinality({s \in S : s.val <= v})

(* lines 98-102: the reducers, over the non-missing elements of a group *)
aggregate(how, G) ==
    LET S == {s \in G : ~s.nan}
        n == Cardinality(S)
    IN IF n = 0 THEN NaN
       ELSE CASE how = "mean" -> [num |-> SumVal(S), den |-> n, root |-> FALSE]
              [] how = "max" -> [num |-> Kth(S, n - 1), den |-> 1, root |-> FALSE]
              [] how = "min" -> [num |-> Kth(S, 0), den |-> 1, root |-> FALSE]
              [] how = "median" ->
                    IF n % 2 = 1
                    THEN [num |-> Kth(S, (n - 1) \div 2), den |-> 1, root |-> FALSE]
                    ELSE [num |-> Kth(S, n \div 2 - 1) + Kth(S, n \div 2),
                          den |-> 2, root |-> FALSE]
              [] how = "std" -> [num |-> n * SumSq(S) - SumVal(S) * SumVal(S),
                                 den |-> n * n, root |-> TRUE]

SetMin(S) == CHOOSE v \in S : \A w \in S : v <= w

SetMax(S) == CHOOSE v \in S : \A w \in S : w <= v

(* lines 107-112: group by ydim, within each group by xdim, reduce, mask *)
group(f) ==
    IF f.exc # "none" THEN f
    ELSE IF ~(Groupable(f.da, f.ydim) /\ Groupable(f.da, f.xdim))
    THEN Raise(f, "KeyError")
    ELSE
    LET X == {Coord(f.da, s, f.xdim) : s \in f.da.samples}
        Y == {Coord(f.da, s, f.ydim) : s \in f.da.samples}
        z == [cell \in X \X Y |->
                 aggregate(f.how.s,
                     {s \in f.da.samples : /\ Coord(f.da, s, f.xdim) = cell[1]
                                           /\ Coord(f.da, s, f.ydim) = cell[2]})]
    IN [f EXCEPT !.grouped = TRUE, !.x = X, !.y = Y, !.z = z,
                 !.mask = {cell \in X \X Y : z[cell].den = 0}]

(* lines 113-115: the new figure, the mesh and the axis limits *)
plot(f) ==
    IF f.exc # "none" THEN f
    ELSE [f EXCEPT !.fig = TRUE,
                   !.ax = add_collection(NewAxis("rectilinear"),
                              [type |-> "QuadMesh", x |-> f.x, y |-> f.y,
                               z |-> f.z, mask |-> f.mask, cmap |-> f.cmap]),
                   !.limits = <<SetMin(f.x), SetMax(f.x), SetMin(f.y), SetMax(f.y)>>]

Frame(da, xdim, ydim, how, cmap) ==
    [exc |-> "none", da |-> da, xdim |-> xdim, ydim |-> ydim, how |-> how,
     cmap |-> cmap, grouped |-> FALSE, x |-> {}, y |-> {}, z |-> <<>>,
     mask |-> {}, fig |-> FALSE, ax |-> NewAxis("none"), limits |-> <<>>]

(* variant of hovmuller with plt.subplots called before the validations *)
plot_first(f) ==
    [f EXCEPT !.fig = TRUE, !.ax = NewAxis("rectilinear")]

hovmuller_mut(da, xdim, ydim, how, cmap) ==
    group(check_how(check_y(check_x(plot_first(Frame(da, xdim, ydim, how, cmap))))))

hovmuller(da, xdim, ydim, how, cmap) ==
    plot(group(check_how(check_y(check_x(Frame(da, xdim, ydim, how, cmap))))))

(* ------------------------------------------------------- inputs of hovmuller *)
Jan1970 == 24 * days_from_civil(1970, 1, 1)

Feb1970 == 24 * days_from_civil(1970, 2, 1)

Jan1971 == 24 * days_from_civil(1971, 1, 1)

Sample(t, h, v, isnan) ==
    [c |-> [time |-> t, hru |-> h], val |-> v, nan |-> isnan]

TimeHru ==
    [dims |-> {"time", "hru"},
     samples |-> {Sample(Jan1970, 1, 2, FALSE), Sample(Jan1970, 2, 4, FALSE),
                  Sample(Feb1970, 1, 6, FALSE), Sample(Feb1970, 2, 0, TRUE),
                  Sample(Jan1971, 1, 3, FALSE), Sample(Jan1971, 2, 5, FALSE)}]

HruMonth ==
    [dims |-> {"hru", "month"},
     samples |-> {[c |-> [hru |-> 1, month |-> 1], val |-> 7, nan |-> FALSE],
                  [c |-> [hru |-> 2, month |-> 2], val |-> 9, nan |-> FALSE]}]

DataArrays == {TimeHru, HruMonth}

Selectors == {"time", "hru", "month", "year", "quarter", "not_a_dim"}

Hows == {None, Str(""), Str("mean"), Str("max"), Str("min"), Str("median"),
         Str("std"), Str("bogus")}

(* ------------------------------------------------------------ state machine *)
Calls ==
    {[op |-> "add_map_features"]}
    \cup [op : {"gen_patches"}, values : ValueArrays, geometry : GeometryTables,
          simplify_level : SimplifyLevels]
    \cup [op : {"spatial"}, values : ValueArrays, geometry : GeometryTables,
          simplify_level : SimplifyLevels, proj : Projections]
    \cup [op : {"hovmuller"}, da : DataArrays, xdim : Selectors, ydim : Selectors,
          how : Hows]

Init ==
    /\ call \in Calls
    /\ figs = 0
    /\ ret = [op |-> "init", ax |-> NewAxis("none"), n |-> 0]

AddMapFeatures(flags) ==
    /\ call.op = "add_map_features"
    /\ ret.n < MaxDecorations
    /\ ret' = [op |-> "add_map_features", flags |-> flags, before |-> ret.ax,
               ax |-> add_map_features(ret.ax, flags), n |-> ret.n + 1]
    /\ UNCHANGED <<call, figs>>

GenPatches ==
    /\ call.op = "gen_patches"
    /\ ret' = [op |-> "gen_patches",
               patches |-> gen_patches(call.values, call.geometry,
                                       call.simplify_level)]
    /\ UNCHANGED <<call, figs>>

Spatial ==
    /\ call.op = "spatial"
    /\ figs < MaxFigs
    /\ ret' = [op |-> "spatial",
               ax |-> spatial(call.values, call.geometry, call.simplify_level,
                              call.proj)]
    /\ figs' = figs + 1
    /\ UNCHANGED call

Hovmuller ==
    /\ call.op = "hovmuller"
    /\ LET r == hovmuller(call.da, call.xdim, call.ydim, call.how, "viridis")
       IN /\ figs + (IF r.fig THEN 1 ELSE 0) <= MaxFigs
          /\ ret' = [op |-> "hovmuller", res |-> r]
          /\ figs' = figs + (IF r.fig THEN 1 ELSE 0)
    /\ UNCHANGED call

Next ==
    \/ \E flags \in Flags : AddMapFeatures(flags)
    \/ GenPatches
    \/ Spatial
    \/ Hovmuller

Spec == Init /\ [][Next]_vars

(* ------------------------------------------------------------- properties *)
(* the single polygons a shape expands to *)
PartsOf(shp) == IF shp.type = "MultiPolygon" THEN shp.geoms ELSE <<shp>>

RECURSIVE Offset(_, _)
Offset(recs, i) ==
    IF i <= 1 THEN 0 ELSE Offset(recs, i - 1) + Len(PartsOf(recs[i - 1][2]))

(* C1: gen_patches returns the in-order concatenation of the records'       *)
(* expansions: record i with k parts fills the k output positions right     *)
(* after those of records 1..i-1, each with the record's own value at the   *)
(* same index of the value array; a table of single polygons only gives one *)
(* shape per record.                                                        *)
C1_PatchesInOrder ==
    (call.op = "gen_patches" /\ ret.op = "gen_patches") =>
        LET recs == Zip(call.values, call.geometry)
            n == Len(recs)
            P == ret.patches.patches
            V == ret.patches.array
        IN /\ Len(P) = Offset(recs, n + 1)
           /\ Len(V) = Len(P)
           /\ \A i \in 1..n : \A j \in 1..Len(PartsOf(recs[i][2])) :
                 /\ P[Offset(recs, i) + j].xy.ring = PartsOf(recs[i][2])[j].id
                 /\ V[Offset(recs, i) + j] = recs[i][1]
           /\ (\A i \in 1..n : recs[i][2].type = "Polygon") =>
                 /\ Len(P) = n
                 /\ \A i \in 1..n : P[i].xy.ring = recs[i][2].id /\ V[i] = recs[i][1]

C1_Witness ==
    /\ call.op = "gen_patches" /\ ret.op = "gen_patches"
    /\ Len(call.values) = 3 /\ Len(call.geometry) = 3
    /\ call.geometry[1].type = "Polygon"
    /\ call.geometry[2].type = "MultiPolygon" /\ Len(call.geometry[2].geoms) = 2
    /\ call.geometry[3].type = "Polygon"
    /\ ret.patches.array = <<10, 20, 20, 30>>

FeatureNames(ax) ==
    [i \in 1..Len(ax.artists) |->
        IF "feature" \in DOMAIN ax.artists[i] THEN ax.artists[i].feature.name
        ELSE "collection"]

AsLayer(flag, name) == IF flag THEN <<name>> ELSE <<>>

FlaggedLayers(f) ==
    AsLayer(f.states_provinces, "admin_1_states_provinces_lines")
    \o AsLayer(f.country_borders, "admin_0_boundary_lines_land")
    \o AsLayer(f.land, "land")
    \o AsLayer(f.ocean, "ocean")
    \o AsLayer(f.lake, "rivers_lake_centerlines")

(* C5: add_map_features adds exactly one layer per true flag and none for a *)
(* false flag, keeping what the axis held; with all flags false the axis is *)
(* unchanged.                                                               *)
C5_OneLayerPerFlag ==
    ret.op = "add_map_features" =>
        /\ FeatureNames(ret.ax) = FeatureNames(ret.before) \o FlaggedLayers(ret.flags)
        /\ SubSeq(ret.ax.artists, 1, Len(ret.before.artists)) = ret.before.artists
        /\ Len(ret.ax.artists) - Len(ret.before.artists)
               = Cardinality({k \in DOMAIN ret.flags : ret.flags[k]})
        /\ (\A k \in DOMAIN ret.flags : ~ret.flags[k]) => ret.ax = ret.before

C5_Witness ==
    /\ ret.op = "add_map_features"
    /\ ret.flags = [states_provinces |-> FALSE, country_borders |-> FALSE,
                    land |-> TRUE, ocean |-> FALSE, lake |-> TRUE]
    /\ Len(ret.before.artists) = 5
    /\ Len(ret.ax.artists) = 7

(* C7: the axis spatial returns holds the patch collection of the          *)
(* reprojected table first, then exactly the four default layers (no lake   *)
(* layer), in a new figure with the target projection, and its view was     *)
(* fitted when the collection was already attached.                         *)
C7_SpatialPipeline ==
    (call.op = "spatial" /\ ret.op = "spatial") =>
        LET coll == ret.ax.artists[1]
            recs == Zip(call.values, call.geometry)
        IN /\ figs >= 1
           /\ ret.ax.projection = call.proj
           /\ FeatureNames(ret.ax) =
                  <<"collection", "admin_1_states_provinces_lines",
                    "admin_0_boundary_lines_land", "land", "ocean">>
           /\ coll.type = "PatchCollection"
           /\ Len(coll.patches) = Offset(recs, Len(recs) + 1)
           /\ \A i \in 1..Len(coll.patches) :
                 coll.patches[i].xy.crs = call.proj
                 /\ coll.patches[i].xy.tol = call.simplify_level
           /\ ret.ax.view = <<coll>>

C7_Witness ==
    /\ call.op = "spatial" /\ ret.op = "spatial"
    /\ call.proj = Mercator
    /\ Len(call.values) = 2 /\ Len(call.geometry) = 2
    /\ call.geometry[1].type = "MultiPolygon" /\ Len(call.geometry[1].geoms) = 2
    /\ Len(ret.ax.artists) = 5
    /\ Len(ret.ax.view) = 1
    /\ figs = 2

CalendarComponents ==
    {"year", "month", "day", "hour", "minute", "second", "dayofyear", "week",
     "dayofweek", "weekday", "quarter"}

IsCalendar(sel) == sel \in CalendarComponents

ValidSelector(da, sel) == sel \in da.dims \/ IsCalendar(sel)

(* a calendar component needs a time coordinate to be applied against *)
Applicable(da, sel) == IsCalendar(sel) => "time" \in da.dims

InvalidDimensionError == {"x dimension not valid", "y dimension not valid"}

MissingAggregationError ==
    {"Must specify aggregation method for x dimension",
     "Must specify aggregation method for y dimension"}

InvalidAggregationMethodError == {"Invalid time aggregation method given"}

ValidationErrors ==
    InvalidDimensionError \cup MissingAggregationError
        \cup InvalidAggregationMethodError

HovDone == call.op = "hovmuller" /\ ret.op = "hovmuller"

(* C2: a call of hovmuller whose xdim or ydim is neither a dimension of the *)
(* array nor a calendar component fails with the 'dimension not valid'      *)
(* error.                                                                   *)
C2_InvalidDimensionRaised ==
    (/\ HovDone
     /\ ~ValidSelector(call.da, call.xdim) \/ ~ValidSelector(call.da, call.ydim)) =>
        ret.res.exc \in InvalidDimensionError

(* C3: a call of hovmuller with valid selectors, one of them a calendar     *)
(* component, and a falsy aggregation method fails with the 'Must specify   *)
(* aggregation method' error.                                               *)
C3_MissingAggregationRaised ==
    (/\ HovDone
     /\ ValidSelector(call.da, call.xdim) /\ ValidSelector(call.da, call.ydim)
     /\ IsCalendar(call.xdim) \/ IsCalendar(call.ydim)
     /\ ~Truthy(call.how)) =>
        ret.res.exc \in MissingAggregationError

(* C4: a call of hovmuller with valid selectors and a method name outside   *)
(* mean, max, min, median, std fails with the 'Invalid time aggregation     *)
(* method given' error.                                                     *)
C4_InvalidAggregationRaised ==
    (/\ HovDone
     /\ ValidSelector(call.da, call.xdim) /\ ValidSelector(call.da, call.ydim)
     /\ call.how = Str("bogus")) =>
        ret.res.exc \in InvalidAggregationMethodError

GroupKey(sel) == IF IsCalendar(sel) THEN "time." \o sel ELSE sel

Matching(da, xkey, ykey, cell) ==
    {s \in da.samples : /\ ~s.nan
                        /\ Coord(da, s, xkey) = cell[1]
                        /\ Coord(da, s, ykey) = cell[2]}

(* C6: with valid selectors and how = "mean" hovmuller returns a grid whose *)
(* every cell holds the arithmetic mean of the source values of that        *)
(* x-group and y-group, the cells without a finite result being masked.     *)
C6_MeanGrid ==
    (/\ HovDone
     /\ ValidSelector(call.da, call.xdim) /\ ValidSelector(call.da, call.ydim)
     /\ Applicable(call.da, call.xdim) /\ Applicable(call.da, call.ydim)
     /\ call.how = Str("mean")) =>
        /\ ret.res.exc = "none"
        /\ ret.res.grouped
        /\ \A cell \in DOMAIN ret.res.z :
              LET M == Matching(call.da, GroupKey(call.xdim), GroupKey(call.ydim),
                                cell)
                  v == ret.res.z[cell]
              IN IF M = {}
                 THEN cell \in ret.res.mask
                 ELSE /\ cell \notin ret.res.mask
                      /\ v.num * Cardinality(M) = SumVal(M) * v.den
                      /\ v.den # 0 /\ ~v.root

(* C8: axis resolution accepts a selector exactly when it names a dimension *)
(* of the array or a calendar component; an accepted calendar component c   *)
(* becomes the grouping key "time.c", an accepted plain dimension stays as  *)
(* it is.                                                                   *)
C8_AxisResolution ==
    (HovDone /\ Truthy(call.how)) =>
        /\ (ret.res.exc \in InvalidDimensionError) <=>
               ~(ValidSelector(call.da, call.xdim) /\ ValidSelector(call.da, call.ydim))
        /\ (ValidSelector(call.da, call.xdim) /\ ValidSelector(call.da, call.ydim)) =>
               /\ ret.res.xdim = GroupKey(call.xdim)
               /\ ret.res.ydim = GroupKey(call.ydim)

(* how a call ended: it returned, a validation rejected it, or it crashed *)
Verdict(r) ==
    IF r.exc = "none" THEN "accepted"
    ELSE IF r.exc \in ValidationErrors THEN "rejected"
    ELSE "crashed"

(* the kind of an error, whichever axis it names *)
Kind(r) ==
    IF r.exc \in InvalidDimensionError THEN "InvalidDimensionError"
    ELSE IF r.exc \in MissingAggregationError THEN "MissingAggregationError"
    ELSE r.exc

====
